---- MODULE Spec2Model ----
(***************************************************************************)
(* A model of ipfs-proxy: the fetch coordinator (src/ipfs_client.rs), the  *)
(* cache I/O and path resolver (src/caching.rs), the object store          *)
(* (entity/src/ipfs_object.rs) and the eviction sweeper                    *)
(* (src/bin/cleanup.rs).                                                   *)
(*                                                                         *)
(* A path is the sequence of its '/'-separated components, a URL is        *)
(* [scheme, base] with base = base_uri.split('/'), so a trailing '/' shows *)
(* as a last component "".  The file system is the pair (files, dirs).     *)
(***************************************************************************)
EXTENDS Integers, Sequences, FiniteSets, TLC

\* ------------------------------------------------------------------ bounds
MaxTime == 2
MaxCalls == 2
MaxSweeps == 1
MaxBody == 3
MaxLines == 4

\* ------------------------------------------------------- configuration
\* config.max_content_length, in the unit of one body chunk
MaxContentLength == 2
\* config.pause_gateway_seconds
PauseGatewaySeconds == 1
\* config.delete_after_days
DeleteAfterDays == 1
\* config.ipfs_cache_directory, "tmp/ipfs" in the tests
CacheDirectory == <<"tmp", "ipfs">>
\* config.ipfs_gateways, in configuration order
IpfsGateways == <<"g1", "g2">>
Gateways == {IpfsGateways[i] : i \in 1..Len(IpfsGateways)}

\* the lengths of contents: from the largest allowed to MaxBody chunks
BodyLens == MaxContentLength..MaxBody

Fetches == {1, 2}
NoHolder == 0

\* ------------------------------------------------------------------ URLs
ValidCids == {"cid"}
Url(scheme, base) == [scheme |-> scheme, base |-> base]
U1 == Url("ipfs://", <<"cid", "meta", "1">>)
U2 == Url("ipfs://", <<"cid", "meta", "2">>)
UBadScheme == Url("http://", <<"cid", "meta", "1">>)
UBadCid == Url("ipfs://", <<"nocid", "meta", "1">>)
\* the URLs the path resolver is given: with a trailing '/', with a known and an
\* unknown extension, a file named index.html, a bare CID
ResolveUrls ==
    {U1, U2,
     Url("ipfs://", <<"cid", "meta", "1", "">>),
     Url("ipfs://", <<"cid", "meta", "5.html">>),
     Url("ipfs://", <<"cid", "meta", "a.json">>),
     Url("ipfs://", <<"cid", "meta", "b.zzz">>),
     Url("ipfs://", <<"cid", "meta", "index.html">>),
     Url("ipfs://", <<"cid">>)}

\* the URLs callers ask for
CallUrls == {U1, U2, UBadScheme, UBadCid}
ValidUrls == {U1, U2}

ContentTypes == {"text/html", "application/json"}

\* ---------------------------------------------------------------- helpers
Last(s) == s[Len(s)]
Front(s) == SubSeq(s, 1, Len(s) - 1)
Some(x) == <<x>>
None == <<>>
EmptyMap == [x \in {} |-> 0]

\* What the OS does with a path: empty components ("a//b", "a/") are skipped.
Normalize(p) == SelectSeq(p, LAMBDA c : c # "")

\* The extension of a path component, "" when it has none.
Extension(c) ==
    CASE c = "5.html" -> "html"
      [] c = "index.html" -> "html"
      [] c = "a.json" -> "json"
      [] c = "b.zzz" -> "zzz"
      [] OTHER -> ""
\* mime_guess::from_path(c).is_empty(): no extension, or one it does not know
KnownExtensions == {"html", "json"}
MimeGuessIsEmpty(c) == Extension(c) \notin KnownExtensions

\* check_ipfs_url, were the CID not parsed
CheckIpfsUrlAnyCid(url) ==
    IF url.scheme # "ipfs://" THEN <<>> ELSE <<url.base>>

\* check_ipfs_url: Some(base_uri), or None for an error
CheckIpfsUrl(url) ==
    IF url.scheme # "ipfs://" THEN None
    ELSE IF url.base[1] \notin ValidCids THEN None
    ELSE Some(url.base)

\* check_ipfs_url: the error it returns
CheckIpfsUrlError(url) ==
    IF url.scheme # "ipfs://" THEN "Not an IPFS URL" ELSE "CID is invalid"

\* format!("{ipfs_url}/")
AppendSlash(url) == Url(url.scheme, url.base \o <<"">>)
\* ipfs_url.ends_with('/')
EndsWithSlash(url) == Len(url.base) > 1 /\ Last(url.base) = ""

\* the directory decision, were every text/html response a directory listing
IsDirectoryAnyHtml(url, content_type) ==
    EndsWithSlash(url) \/ content_type = Some("text/html")

\* caching_filename: the directory decision
IsDirectory(url, content_type) ==
    \/ EndsWithSlash(url)
    \/ /\ content_type = Some("text/html")
       /\ MimeGuessIsEmpty(Last(url.base))

\* caching_filename: the directory create_dir_all is given
CacheDirOf(url, content_type) ==
    IF IsDirectory(url, content_type)
    THEN CacheDirectory \o url.base
    ELSE CacheDirectory \o Front(url.base)

\* caching_filename: the filename returned (as the string is built, not normalized)
CachingFilename(url, content_type) ==
    IF IsDirectory(url, content_type)
    THEN (CacheDirectory \o url.base) \o <<"index.html">>
    ELSE CacheDirectory \o url.base

\* ------------------------------------------------------------ file system
\* the non-empty prefixes of a path
Prefixes(p) == {SubSeq(p, 1, n) : n \in 1..Len(p)}

IsFile(fl, p) == Normalize(p) \in DOMAIN fl
IsDir(ds, p) == Normalize(p) \in ds

\* a create_dir_all that makes a directory where a file is
CanCreateDirAllOverFiles(fl, p) == TRUE

\* fs::create_dir_all: fails when a component exists as a file
CanCreateDirAll(fl, p) == Prefixes(Normalize(p)) \cap DOMAIN fl = {}
CreateDirAll(ds, p) == ds \cup Prefixes(Normalize(p))

\* dir.read_dir().next().is_some()
HasEntries(fl, ds, d) ==
    \E p \in DOMAIN fl \cup ds : Len(p) = Len(d) + 1 /\ Front(p) = d

RemoveFile(fl, p) == [q \in DOMAIN fl \ {Normalize(p)} |-> fl[q]]

\* a rename that takes any target, a directory too
CanRenameOntoAny(fl, ds, to) == Front(Normalize(to)) \in ds

\* fs::rename(tmp, to): the target must not be a directory, its parent must be one
CanRename(fl, ds, to) ==
    /\ Normalize(to) \notin ds
    /\ Front(Normalize(to)) \in ds
WriteFile(fl, p, content) ==
    [q \in DOMAIN fl \cup {Normalize(p)} |->
        IF q = Normalize(p) THEN content ELSE fl[q]]

\* fs::metadata(f).map(|t| t.len()).ok().unwrap_or_default()
FileLen(fl, p) == IF IsFile(fl, p) THEN fl[Normalize(p)].size ELSE 0

\* delete_caching: the walk up the parents, from directory d; an empty path
\* (the parent of a one-component relative path) cannot be read and ends it
RECURSIVE PruneParents(_, _, _)
PruneParents(fl, ds, d) ==
    IF d = <<>> \/ d \notin ds THEN ds
    ELSE IF HasEntries(fl, ds, d) THEN ds
    ELSE PruneParents(fl, ds \ {d}, Front(d))

\* delete_caching(ipfs_url): resolves with no content type; the pair (files, dirs) after
DeleteCachingFiles(fl, url) == RemoveFile(fl, CachingFilename(url, None))
DeleteCachingDirs(fl, ds, url) ==
    PruneParents(DeleteCachingFiles(fl, url), ds,
                 Front(Normalize(CachingFilename(url, None))))

\* ------------------------------------------------------------------ state
VARIABLES
    now,        \* Utc::now()
    files,      \* the cache files: path -> [size, of, ct]; size = of when complete
    dirs,       \* the directories that exist
    db,         \* table ipfs_object (committed): remote_url -> row
    blocked,    \* BLOCKED_GATEWAYS: gateway -> instant of its entry
    mutex,      \* the fetch call holding the BLOCKED_GATEWAYS mutex, or NoHolder
    pc,         \* where each fetch_ipfs_data call stands
    furl,       \* its ipfs_url
    urls,       \* its candidate request URLs (the urls vector)
    inflight,   \* its spawned requests whose result the race loop has not taken
    cur,        \* the response being handled: [ct, len, size, host, at], or None
    tmp,        \* chunks written to the temp file, -1 when there is none
    data,       \* the Data the call holds, or None
    out,        \* the return of a call in the step that led here, else None
    took,       \* the response the race loop took in the step that led here, else None
    body,       \* per URL, the length in chunks of the content it names
    rin,        \* a call of caching_filename: [url, hint, create], or None
    rout,       \* what it returned: [ok, filename], None before it has
    tasks,      \* spawned update_entry tasks not yet run
    spc,        \* where the sweeper stands
    sdate,      \* its threshold
    sstale,     \* the stale rows it still has to process
    sdel,       \* rows deleted inside its open transaction
    ssnap,      \* TRUE while its read snapshot is still the latest state
    ncalls,     \* fetch calls started
    nsweeps,    \* sweeps started
    last429,    \* per gateway, the instant a call last took a 429 of it, -1 if none
    sem,        \* bin/fetch: the permits the semaphore has left
    index,      \* bin/fetch: the lines of the file main has gone through
    main,       \* bin/fetch: where main stands
    jobs,       \* bin/fetch: per line, where its spawned task stands ("none" before)
    join_handlers,  \* bin/fetch: the indices in the join_handlers map
    permit      \* bin/fetch: TRUE while main holds a permit it has not yet moved to a task

vars == <<now, files, dirs, db, blocked, mutex, pc, furl, urls, inflight,
          cur, tmp, data, out, took, body, rin, rout, tasks, spc, sdate, sstale, sdel, ssnap,
          ncalls, nsweeps, last429, sem, index, main, jobs, join_handlers, permit>>

\* the state outside bin/fetch, and the state of bin/fetch
proxyVars == <<now, files, dirs, db, blocked, mutex, pc, furl, urls, inflight,
               cur, tmp, data, out, took, body, rin, rout, tasks, spc, sdate, sstale, sdel,
               ssnap, ncalls, nsweeps, last429>>
prefetchVars == <<sem, index, main, jobs, join_handlers, permit>>

fsVars == <<files, dirs>>
raceVars == <<urls, inflight>>
callVars == <<pc, furl, urls, inflight, cur, tmp, data>>
sweepVars == <<spc, sdate, sstale, sdel, ssnap, nsweeps>>

\* bin/fetch --threads-count
ThreadsCount == 2
\* the lines of the file of URLs
Lines == 0..(MaxLines - 1)

\* bin/fetch before main starts on the file: Semaphore::new(threads_count), an empty map
InitPrefetch ==
    /\ sem = ThreadsCount
    /\ index = 0
    /\ main = "acquire"
    /\ jobs = [i \in Lines |-> "none"]
    /\ join_handlers = {}
    /\ permit = FALSE

Result(kind) == [kind |-> kind, n |-> 0, max |-> 0]
Ok == Result("ok")
Err(kind) == Result(kind)
\* anyhow!("File is {} bytes, maximum allowed is {}", content_length, max_content_length)
ErrDeclared(n) == [kind |-> "File is n bytes, maximum allowed is max",
                   n |-> n, max |-> MaxContentLength]
\* anyhow!("File is {} bytes, maximum allowed is {}. Fetched and deleting cached file.", ..)
ErrObserved(n) ==
    [kind |-> "File is n bytes, maximum allowed is max. Fetched and deleting cached file.",
     n |-> n, max |-> MaxContentLength]

Data(content_type, filename) == [content_type |-> content_type, filename |-> filename]

Init ==
    /\ now = 0
    /\ files = EmptyMap
    /\ dirs = Prefixes(CacheDirectory)
    /\ db = EmptyMap
    /\ blocked = EmptyMap
    /\ mutex = NoHolder
    /\ pc = [f \in Fetches |-> "idle"]
    /\ furl = [f \in Fetches |-> U1]
    /\ urls = [f \in Fetches |-> {}]
    /\ inflight = [f \in Fetches |-> {}]
    /\ cur = [f \in Fetches |-> None]
    /\ tmp = [f \in Fetches |-> -1]
    /\ data = [f \in Fetches |-> None]
    /\ out = None
    /\ took = None
    /\ body \in [ValidUrls -> BodyLens]
    /\ rin = None
    /\ rout = None
    /\ tasks = {}
    /\ spc = "idle"
    /\ sdate = 0
    /\ sstale = <<>>
    /\ sdel = {}
    /\ ssnap = TRUE
    /\ ncalls = 0
    /\ nsweeps = 0
    /\ last429 = [g \in Gateways |-> -1]
    /\ InitPrefetch

\* ------------------------------------------------------------ object store
Row(cached_at, last_accessed_at, content_type, content_size) ==
    [cached_at |-> cached_at, last_accessed_at |-> last_accessed_at,
     content_type |-> content_type, content_size |-> content_size]

\* the upsert, were it INSERT OR REPLACE
UpdateEntryReplace(table, url, content_type, content_size, t) ==
    [u \in DOMAIN table \cup {url} |->
        IF u = url THEN Row(t, t, content_type, content_size) ELSE table[u]]

\* update_entry: INSERT ... ON CONFLICT (remote_url) DO UPDATE SET last_accessed_at
UpdateEntry(table, url, content_type, content_size, t) ==
    IF url \in DOMAIN table
    THEN [table EXCEPT ![url].last_accessed_at = t]
    ELSE [u \in DOMAIN table \cup {url} |->
            IF u = url THEN Row(t, t, content_type, content_size) ELSE table[u]]

\* The sweeper's transaction holds the write lock from its first DELETE to its end.
WriteLocked == sdel # {}

\* A write another connection commits makes the sweeper's read snapshot stale.
SnapAfterWrite == IF spc \in {"delfile", "delrec"} THEN FALSE ELSE ssnap

\* ---------------------------------------------------------------- cache I/O
\* infer::get(&bytes): magic numbers tell HTML, not JSON
Infer(content) == IF content.ct = Some("text/html") THEN Some("text/html") ELSE None

\* get_caching, with its one recursive call on "{ipfs_url}/"
RECURSIVE GetCaching(_, _, _)
GetCaching(fl, table, url) ==
    LET filename == CachingFilename(url, None) IN
    IF IsFile(fl, filename)
    THEN Some(Data(IF url \in DOMAIN table
                   THEN Some(table[url].content_type)
                   ELSE Infer(fl[Normalize(filename)]),
                   filename))
    ELSE IF ~EndsWithSlash(url) THEN GetCaching(fl, table, AppendSlash(url))
    ELSE None

\* get_caching, were it to probe the resolved path only
GetCachingProbesOnce(fl, url) == <<CachingFilename(url, None)>>

\* get_caching: the filenames it tests with is_file(), in order
RECURSIVE GetCachingProbes(_, _)
GetCachingProbes(fl, url) ==
    LET filename == CachingFilename(url, None) IN
    IF IsFile(fl, filename) THEN <<filename>>
    ELSE IF ~EndsWithSlash(url) THEN <<filename>> \o GetCachingProbes(fl, AppendSlash(url))
    ELSE <<filename>>

\* ------------------------------------------------------- calls and returns
\* Dropping the guard taken at `let blocked_gateways = BLOCKED_GATEWAYS.lock().await`:
\* it lives to the end of fetch_ipfs_data, so it is dropped when the call returns.
Release(f) == IF mutex = f THEN NoHolder ELSE mutex

\* The call returns r (with the Data d on success): all its locals are dropped,
\* the guard and the temp file among them.
Return(f, r, d) ==
    /\ out' = Some([fetch |-> f, url |-> furl[f], result |-> r, data |-> d,
                    urls |-> urls[f]])
    /\ mutex' = Release(f)
    /\ pc' = [pc EXCEPT ![f] = "idle"]
    /\ furl' = [furl EXCEPT ![f] = U1]
    /\ urls' = [urls EXCEPT ![f] = {}]
    /\ inflight' = [inflight EXCEPT ![f] = {}]
    /\ cur' = [cur EXCEPT ![f] = None]
    /\ tmp' = [tmp EXCEPT ![f] = -1]
    /\ data' = [data EXCEPT ![f] = None]

\* The step is not a return.
Goes(f, to) ==
    /\ out' = None
    /\ pc' = [pc EXCEPT ![f] = to]

\* A caller (the HTTP frontend, the prefetch utility) calls fetch_ipfs_data(url) on
\* the first free task.  check_ipfs_url fails fast; otherwise the cache is probed next.
Call(f, u) ==
    /\ UNCHANGED <<body, rin, rout, prefetchVars>>
    /\ took' = None
    /\ pc[f] = "idle"
    /\ \A e \in Fetches : e < f => pc[e] # "idle"
    /\ ncalls < MaxCalls
    /\ ncalls' = ncalls + 1
    /\ IF CheckIpfsUrl(u) = None
       THEN /\ out' = Some([fetch |-> f, url |-> u, data |-> None, urls |-> {},
                            result |-> Err(CheckIpfsUrlError(u))])
            /\ UNCHANGED <<pc, furl>>
       ELSE /\ Goes(f, "probe")
            /\ furl' = [furl EXCEPT ![f] = u]
    /\ UNCHANGED <<now, fsVars, db, blocked, mutex, raceVars, cur, tmp, data, tasks,
                   sweepVars, last429>>

\* ------------------------------------------------ fetch_ipfs_data: the hit path
\* get_caching(ctx, ipfs_url): a hit keeps the Data, a miss goes on to the gateways
\* (config.ipfs.enabled is false: no local listing).
ProbeWithRecord(f) ==
    /\ UNCHANGED <<body, rin, rout, prefetchVars>>
    /\ took' = None
    /\ pc[f] = "probe"
    /\ LET got == GetCaching(files, db, furl[f]) IN
       IF got # None /\ furl[f] \in DOMAIN db
       THEN /\ data' = [data EXCEPT ![f] = got]
            /\ Goes(f, "hit")
       ELSE /\ data' = data
            /\ Goes(f, "lock")
    /\ UNCHANGED <<now, fsVars, db, blocked, mutex, furl, raceVars, cur, tmp,
                   tasks, sweepVars, ncalls, last429>>

Probe(f) ==
    /\ UNCHANGED <<body, rin, rout, prefetchVars>>
    /\ took' = None
    /\ pc[f] = "probe"
    /\ LET got == GetCaching(files, db, furl[f]) IN
       IF got # None
       THEN /\ data' = [data EXCEPT ![f] = got]
            /\ Goes(f, "hit")
       ELSE /\ data' = data
            /\ Goes(f, "lock")
    /\ UNCHANGED <<now, fsVars, db, blocked, mutex, furl, raceVars, cur, tmp,
                   tasks, sweepVars, ncalls, last429>>

\* the hit, were it to await update_entry before it returns
HitReturnAwaits(f) ==
    /\ UNCHANGED <<body, rin, rout, prefetchVars>>
    /\ took' = None
    /\ pc[f] = "hit"
    /\ LET d == data[f][1] IN
       db' = UpdateEntry(db, furl[f],
                         IF d.content_type = None THEN "" ELSE d.content_type[1],
                         FileLen(files, d.filename), now)
    /\ Return(f, Ok, data[f])
    /\ UNCHANGED <<now, fsVars, blocked, tasks, sweepVars, ncalls, last429>>

\* The hit: measure the file, spawn the update_entry task, return the cached Data.
HitReturn(f) ==
    /\ UNCHANGED <<body, rin, rout, prefetchVars>>
    /\ took' = None
    /\ pc[f] = "hit"
    /\ LET d == data[f][1] IN
       tasks' = tasks \cup {[url |-> furl[f],
                             content_type |-> IF d.content_type = None THEN ""
                                              ELSE d.content_type[1],
                             content_size |-> FileLen(files, d.filename),
                             spawned |-> now]}
    /\ Return(f, Ok, data[f])
    /\ UNCHANGED <<now, fsVars, db, blocked, sweepVars, ncalls, last429>>

\* A spawned update_entry task runs: it has read the clock at some instant since
\* it was spawned, and now its statement executes; while the sweeper's transaction
\* holds the write lock it waits, or gives up with "database is locked" (logged,
\* nothing changes).
RunTask(t) ==
    /\ UNCHANGED <<body, rin, rout, prefetchVars>>
    /\ took' = None
    /\ t \in tasks
    /\ tasks' = tasks \ {t}
    /\ out' = None
    /\ IF WriteLocked
       THEN UNCHANGED <<db, ssnap>>
       ELSE /\ \E at \in t.spawned..now :
                  db' = UpdateEntry(db, t.url, t.content_type, t.content_size, at)
            /\ ssnap' = SnapAfterWrite
    /\ UNCHANGED <<now, fsVars, blocked, mutex, callVars,
                   spc, sdate, sstale, sdel, ncalls, nsweeps, last429>>

\* A spawned update_entry task whose statement fails for a reason of the database's
\* own (I/O, a lock held by another process): the error is logged, nothing changes.
TaskError(t) ==
    /\ UNCHANGED <<body, rin, rout, prefetchVars>>
    /\ took' = None
    /\ t \in tasks
    /\ tasks' = tasks \ {t}
    /\ out' = None
    /\ UNCHANGED <<now, fsVars, db, blocked, mutex, callVars, sweepVars, ncalls, last429>>

\* ------------------------------------------------ fetch_ipfs_data: the miss path
\* the gateways the filter keeps: no entry, or an entry at least pause_gateway_seconds old
Candidates(bl, t) ==
    {g \in Gateways : g \notin DOMAIN bl \/ t - bl[g] >= PauseGatewaySeconds}

\* the request URL, were the base_uri left out
RequestUrlOfGateway(ipfs_gateway, base_uri) == <<ipfs_gateway>>

\* format!("{}/{}", ipfs_gateway, base_uri)
RequestUrl(ipfs_gateway, base_uri) == <<ipfs_gateway>> \o base_uri

\* url.host() of a gateway's response, and ipfs_gateway.contains(&host)
Host(g) == g
Contains(ipfs_gateway, host) == ipfs_gateway = host
Matching(host) == {g \in Gateways : Contains(g, host)}

\* The statuses a gateway answers with; 0 stands for a transport error.
Statuses == {200, 429, 404, 0}
\* the Content-Type header of a 200 response
ContentTypeHeaders == {None} \cup {Some(c) : c \in ContentTypes}

\* BLOCKED_GATEWAYS.lock().await, at its two places: before the candidate set is
\* built (and the requests spawned), and in the 429 branch before the insert.
LockBlockedGateways(f) ==
    /\ UNCHANGED <<body, rin, rout, prefetchVars>>
    /\ took' = None
    /\ pc[f] \in {"lock", "relock"}
    /\ mutex = NoHolder
    /\ Goes(f, "race")
    /\ IF pc[f] = "lock"
       THEN /\ mutex' = f
            /\ urls' = [urls EXCEPT ![f] =
                   {RequestUrl(g, CheckIpfsUrl(furl[f])[1]) : g \in Candidates(blocked, now)}]
            /\ inflight' = [inflight EXCEPT ![f] = Candidates(blocked, now)]
            /\ UNCHANGED <<blocked, cur>>
       ELSE /\ blocked' = [g \in DOMAIN blocked \cup Matching(cur[f][1].host) |->
                            IF g \in Matching(cur[f][1].host) THEN now ELSE blocked[g]]
            /\ cur' = [cur EXCEPT ![f] = None]
            /\ UNCHANGED <<mutex, urls, inflight>>
    /\ UNCHANGED <<now, fsVars, db, furl, tmp, data, tasks,
                   sweepVars, ncalls, last429>>

\* the declared-size test, were it left out
DeclaredNeverTooLarge(advertised, len) == FALSE

\* response.content_length() is Some(n) with n > max_content_length
DeclaredTooLarge(advertised, len) == advertised /\ len > MaxContentLength

\* a response as the race loop sees it
Response(f, g, status, advertised, ct, len) ==
    [fetch |-> f, gateway |-> g, status |-> status, advertised |-> advertised,
     ct |-> ct, len |-> len]

\* futures.next() yields the result of a request, in the order the requests complete:
\* any request of the call not yet taken may be the next.  Here a 200 with its headers
\* (Content-Length advertised or not, Content-Type, a body of len chunks).
Handle200(f, g, advertised, ct, len) ==
    /\ UNCHANGED <<body, rin, rout, prefetchVars>>
    /\ pc[f] = "race"
    /\ g \in inflight[f]
    /\ len = body[furl[f]]
    /\ took' = Some(Response(f, g, 200, advertised, ct, len))
    /\ IF DeclaredTooLarge(advertised, len)
       THEN /\ Return(f, ErrDeclared(len), None)
            /\ UNCHANGED fsVars
       ELSE \* set_stream_caching: caching_filename(.., create = true), then the temp file
            IF CanCreateDirAll(files, CacheDirOf(furl[f], ct))
            THEN /\ dirs' = CreateDirAll(dirs, CacheDirOf(furl[f], ct))
                 /\ inflight' = [inflight EXCEPT ![f] = @ \ {g}]
                 /\ tmp' = [tmp EXCEPT ![f] = 0]
                 /\ cur' = [cur EXCEPT ![f] = Some([ct |-> ct, len |-> len, size |-> 0,
                                                    host |-> Host(g), at |-> 0])]
                 /\ data' = [data EXCEPT ![f] =
                                Some(Data(ct, CachingFilename(furl[f], ct)))]
                 /\ Goes(f, "stream")
                 /\ UNCHANGED <<files, mutex, furl, urls>>
            ELSE /\ Return(f, Err("create_dir_all failed"), None)
                 /\ UNCHANGED fsVars
    /\ UNCHANGED <<now, db, blocked, tasks, sweepVars, ncalls, last429>>

\* the race loop, were a result that is not a 200 to end the call with an error
HandleOtherFailFast(f, g, status) ==
    /\ UNCHANGED <<body, rin, rout, prefetchVars>>
    /\ pc[f] = "race"
    /\ g \in inflight[f]
    /\ status # 200
    /\ took' = Some(Response(f, g, status, FALSE, None, 0))
    /\ Return(f, Err("failed fetching"), None)
    /\ UNCHANGED <<now, fsVars, db, blocked, tasks, sweepVars, ncalls, last429>>

\* The race loop takes a result that is not a 200: a 429 goes for the block-list,
\* any other status and a transport error (status 0) are logged.
HandleOther(f, g, status) ==
    /\ UNCHANGED <<body, rin, rout, prefetchVars>>
    /\ pc[f] = "race"
    /\ g \in inflight[f]
    /\ status # 200
    /\ took' = Some(Response(f, g, status, FALSE, None, 0))
    /\ inflight' = [inflight EXCEPT ![f] = @ \ {g}]
    /\ last429' = IF status = 429 THEN [last429 EXCEPT ![g] = now] ELSE last429
    /\ IF status = 429 /\ Matching(Host(g)) # {}
       THEN /\ Goes(f, "relock")
            /\ cur' = [cur EXCEPT ![f] = Some([ct |-> None, len |-> 0, size |-> 0,
                                               host |-> Host(g), at |-> 0])]
       ELSE /\ out' = None
            /\ UNCHANGED <<pc, cur>>
    /\ UNCHANGED <<now, fsVars, db, blocked, mutex, furl, urls, tmp, data,
                   tasks, sweepVars, ncalls>>

\* futures.next() yields None: every candidate was handled without a 200.
AllFailed(f) ==
    /\ UNCHANGED <<body, rin, rout, prefetchVars>>
    /\ took' = None
    /\ pc[f] = "race"
    /\ inflight[f] = {}
    /\ Return(f, Err("Couldn't fetch any url"), None)
    /\ UNCHANGED <<now, fsVars, db, blocked, tasks, sweepVars, ncalls, last429>>

\* set_stream_caching: one chunk of the body is appended to the temp file
StreamChunk(f) ==
    /\ UNCHANGED <<body, rin, rout, prefetchVars>>
    /\ took' = None
    /\ pc[f] = "stream"
    /\ tmp[f] < cur[f][1].len
    /\ tmp' = [tmp EXCEPT ![f] = @ + 1]
    /\ out' = None
    /\ UNCHANGED <<now, fsVars, db, blocked, mutex, pc, furl, raceVars, cur, data,
                   tasks, sweepVars, ncalls, last429>>

\* set_stream_caching, were a failed stream to leave what it has read at the final path
StreamErrorKeepsPartial(f) ==
    /\ UNCHANGED <<body, rin, rout, prefetchVars>>
    /\ took' = None
    /\ pc[f] = "stream"
    /\ tmp[f] < cur[f][1].len
    /\ files' = WriteFile(files, data[f][1].filename,
                          [size |-> tmp[f], of |-> cur[f][1].len, ct |-> cur[f][1].ct])
    /\ Return(f, Err("stream error"), None)
    /\ UNCHANGED <<now, dirs, db, blocked, tasks, sweepVars, ncalls, last429>>

\* set_stream_caching, were a failed stream to send the call back to the race loop
StreamErrorRacesOn(f) ==
    /\ UNCHANGED <<body, rin, rout, prefetchVars>>
    /\ took' = None
    /\ pc[f] = "stream"
    /\ tmp[f] < cur[f][1].len
    /\ tmp' = [tmp EXCEPT ![f] = -1]
    /\ Goes(f, "race")
    /\ UNCHANGED <<mutex, furl, raceVars, cur, data>>
    /\ UNCHANGED <<now, fsVars, db, blocked, tasks, sweepVars, ncalls, last429>>

\* set_stream_caching: the stream yields an error; the temp file is dropped
StreamError(f) ==
    /\ UNCHANGED <<body, rin, rout, prefetchVars>>
    /\ took' = None
    /\ pc[f] = "stream"
    /\ tmp[f] < cur[f][1].len
    /\ Return(f, Err("stream error"), None)
    /\ UNCHANGED <<now, fsVars, db, blocked, tasks, sweepVars, ncalls, last429>>

\* set_stream_caching: tmp_file.write_all fails on a chunk; the temp file is dropped
WriteError(f) ==
    /\ UNCHANGED <<body, rin, rout, prefetchVars>>
    /\ took' = None
    /\ pc[f] = "stream"
    /\ tmp[f] < cur[f][1].len
    /\ Return(f, Err("write failed"), None)
    /\ UNCHANGED <<now, fsVars, db, blocked, tasks, sweepVars, ncalls, last429>>

\* set_stream_caching, were a stream error to leave the loop for the rename
RenameAfterBreak(f) ==
    /\ UNCHANGED <<body, rin, rout, prefetchVars>>
    /\ took' = None
    /\ pc[f] = "stream"
    /\ tmp[f] <= cur[f][1].len
    /\ CanRename(files, dirs, data[f][1].filename)
    /\ files' = WriteFile(files, data[f][1].filename,
                          [size |-> tmp[f], of |-> cur[f][1].len, ct |-> cur[f][1].ct])
    /\ tmp' = [tmp EXCEPT ![f] = -1]
    /\ Goes(f, "check")
    /\ UNCHANGED <<mutex, furl, raceVars, cur, data>>
    /\ UNCHANGED <<now, dirs, db, blocked, tasks, sweepVars, ncalls, last429>>

\* set_stream_caching: the stream is over, fs::rename(&tmp_file, &filename)
Rename(f) ==
    /\ UNCHANGED <<body, rin, rout, prefetchVars>>
    /\ took' = None
    /\ pc[f] = "stream"
    /\ tmp[f] = cur[f][1].len
    /\ IF CanRename(files, dirs, data[f][1].filename)
       THEN /\ files' = WriteFile(files, data[f][1].filename,
                                  [size |-> tmp[f], of |-> cur[f][1].len,
                                   ct |-> cur[f][1].ct])
            /\ tmp' = [tmp EXCEPT ![f] = -1]
            /\ Goes(f, "check")
            /\ UNCHANGED <<mutex, furl, raceVars, cur, data>>
       ELSE /\ Return(f, Err("rename failed"), None)
            /\ UNCHANGED files
    /\ UNCHANGED <<now, dirs, db, blocked, tasks, sweepVars, ncalls, last429>>

\* the size check after the stream: fs::metadata, and delete_caching when too large;
\* else update_entry is called and reads the clock for the row it will write
PostCheck(f) ==
    /\ UNCHANGED <<body, rin, rout, prefetchVars>>
    /\ took' = None
    /\ pc[f] = "check"
    /\ LET content_length == FileLen(files, data[f][1].filename) IN
       IF content_length > MaxContentLength
       THEN /\ files' = DeleteCachingFiles(files, furl[f])
            /\ dirs' = DeleteCachingDirs(files, dirs, furl[f])
            /\ Return(f, ErrObserved(content_length), None)
       ELSE /\ cur' = [cur EXCEPT ![f] = Some([@[1] EXCEPT !.size = content_length,
                                                             !.at = now])]
            /\ Goes(f, "upsert")
            /\ UNCHANGED <<fsVars, mutex, furl, raceVars, tmp, data>>
    /\ UNCHANGED <<now, db, blocked, tasks, sweepVars, ncalls, last429>>

\* update_entry(&ctx.db, ipfs_url, content_type or "", content_length).await?:
\* the statement executes, with the instant read when update_entry was called
Upsert(f) ==
    /\ UNCHANGED <<body, rin, rout, prefetchVars>>
    /\ took' = None
    /\ pc[f] = "upsert"
    /\ IF WriteLocked
       THEN /\ Return(f, Err("database is locked"), None)
            /\ UNCHANGED <<db, ssnap>>
       ELSE /\ db' = UpdateEntry(db, furl[f],
                                 IF cur[f][1].ct = None THEN "" ELSE cur[f][1].ct[1],
                                 cur[f][1].size, cur[f][1].at)
            /\ ssnap' = SnapAfterWrite
            /\ Return(f, Ok, data[f])
    /\ UNCHANGED <<now, fsVars, blocked, tasks,
                   spc, sdate, sstale, sdel, ncalls, nsweeps, last429>>

\* update_entry(..).await? after the stream, failing for a reason of the
\* database's own: the error is returned through `?`
UpsertError(f) ==
    /\ UNCHANGED <<body, rin, rout, prefetchVars>>
    /\ took' = None
    /\ pc[f] = "upsert"
    /\ Return(f, Err("database error"), None)
    /\ UNCHANGED <<now, fsVars, db, blocked, tasks, sweepVars, ncalls, last429>>

\* The caller drops the call at a suspension point (the HTTP client went away).
Cancel(f) ==
    /\ UNCHANGED <<body, rin, rout, prefetchVars>>
    /\ took' = None
    /\ pc[f] \in {"probe", "hit", "lock", "race", "stream", "check", "upsert", "relock"}
    /\ Return(f, Err("cancelled"), None)
    /\ UNCHANGED <<now, fsVars, db, blocked, tasks, sweepVars, ncalls, last429>>

\* ------------------------------------------------------- the eviction sweeper
\* the orders in which a query may return the rows of S
Orders(S) ==
    {q \in [1..Cardinality(S) -> S] : \A i, j \in 1..Cardinality(S) : q[i] = q[j] => i = j}

\* the query, were its filter lte(date)
StaleUpTo(table, date) == {u \in DOMAIN table : table[u].last_accessed_at <= date}

\* Entity::find().filter(LastAccessedAt.lt(date))
Stale(table, date) == {u \in DOMAIN table : table[u].last_accessed_at < date}

\* the sweeper's main ends: its locals are dropped
SweepEnds ==
    /\ spc' = "idle"
    /\ sdate' = 0
    /\ sstale' = <<>>
    /\ sdel' = {}
    /\ ssnap' = TRUE

\* ctx.db.begin(), the threshold, and the query for the stale rows
SweepBegin ==
    /\ UNCHANGED <<body, rin, rout, prefetchVars>>
    /\ took' = None
    /\ spc = "idle"
    /\ nsweeps < MaxSweeps
    /\ nsweeps' = nsweeps + 1
    /\ sdate' = now - DeleteAfterDays
    /\ \E q \in Orders(Stale(db, now - DeleteAfterDays)) : sstale' = q
    /\ sdel' = {}
    /\ ssnap' = TRUE
    /\ spc' = IF Stale(db, now - DeleteAfterDays) = {} THEN "commit" ELSE "delfile"
    /\ out' = None
    /\ UNCHANGED <<now, fsVars, db, blocked, mutex, callVars, tasks, ncalls, last429>>

\* delete_caching(ctx, &ipfs_object.remote_url); it has no error to log here
SweepDeleteFile ==
    /\ UNCHANGED <<body, rin, rout, prefetchVars>>
    /\ took' = None
    /\ spc = "delfile"
    /\ files' = DeleteCachingFiles(files, Head(sstale))
    /\ dirs' = DeleteCachingDirs(files, dirs, Head(sstale))
    /\ spc' = "delrec"
    /\ out' = None
    /\ UNCHANGED <<now, db, blocked, mutex, callVars, tasks, sdate, sstale, sdel, ssnap,
                   ncalls, nsweeps, last429>>

\* ipfs_object.delete(&txn).await?  The first DELETE turns the read transaction
\* into a write transaction, which the engine refuses when the snapshot is stale
\* (another connection committed since): main returns the error and the
\* transaction is rolled back.
SweepDeleteRecord ==
    /\ UNCHANGED <<body, rin, rout, prefetchVars>>
    /\ took' = None
    /\ spc = "delrec"
    /\ IF sdel = {} /\ ~ssnap
       THEN SweepEnds
       ELSE /\ sdel' = sdel \cup {Head(sstale)}
            /\ sstale' = Tail(sstale)
            /\ spc' = IF Tail(sstale) = <<>> THEN "commit" ELSE "delfile"
            /\ UNCHANGED <<sdate, ssnap>>
    /\ out' = None
    /\ UNCHANGED <<now, fsVars, db, blocked, mutex, callVars, tasks, ncalls, nsweeps, last429>>

\* txn.commit()
SweepCommit ==
    /\ UNCHANGED <<body, rin, rout, prefetchVars>>
    /\ took' = None
    /\ spc = "commit"
    /\ db' = [u \in DOMAIN db \ sdel |-> db[u]]
    /\ SweepEnds
    /\ out' = None
    /\ UNCHANGED <<now, fsVars, blocked, mutex, callVars, tasks, ncalls, nsweeps, last429>>

\* ------------------------------------------------------------------- time
Tick ==
    /\ UNCHANGED <<body, rin, rout, prefetchVars>>
    /\ took' = None
    /\ now < MaxTime
    /\ now' = now + 1
    /\ out' = None
    /\ UNCHANGED <<fsVars, db, blocked, mutex, callVars, tasks, sweepVars, ncalls, last429>>

\* ------------------------------------------------------------ specification
FetchStep(f) ==
    \/ Probe(f)
    \/ HitReturn(f)
    \/ LockBlockedGateways(f)
    \/ \E g \in Gateways, advertised \in BOOLEAN, ct \in ContentTypeHeaders, len \in BodyLens :
          Handle200(f, g, advertised, ct, len)
    \/ \E g \in Gateways, status \in Statuses : HandleOther(f, g, status)
    \/ AllFailed(f)
    \/ StreamChunk(f)
    \/ StreamError(f)
    \/ WriteError(f)
    \/ Rename(f)
    \/ PostCheck(f)
    \/ Upsert(f)

SweepStep == SweepBegin \/ SweepDeleteFile \/ SweepDeleteRecord \/ SweepCommit

Next ==
    \/ \E f \in Fetches, u \in CallUrls : Call(f, u)
    \/ \E f \in Fetches : FetchStep(f)
    \/ \E f \in Fetches : Cancel(f)
    \/ \E t \in tasks : RunTask(t)
    \/ SweepStep
    \/ Tick

Spec == Init /\ [][Next]_vars

\* The tokio runtime keeps polling a call that can go on; nothing obliges a caller
\* to call, to drop a call, the sweeper to run, or time to pass.
FairSpec == Spec /\ \A f \in Fetches : WF_vars(FetchStep(f))

\* Sweeps and fetches that never overlap: a sweep starts when no call and no spawned
\* task is under way, and nothing else runs until it has ended.
NoFetch == (\A f \in Fetches : pc[f] = "idle") /\ tasks = {}
NoSweep == spc = "idle"

NextSeq ==
    \/ NoSweep /\ \E f \in Fetches, u \in CallUrls : Call(f, u)
    \/ NoSweep /\ \E f \in Fetches : FetchStep(f)
    \/ NoSweep /\ \E f \in Fetches : Cancel(f)
    \/ NoSweep /\ \E t \in tasks : RunTask(t)
    \/ NoFetch /\ SweepStep
    \/ NoSweep /\ Tick

SpecSeq == Init /\ [][NextSeq]_vars

\* Every call runs to its return: no caller drops a call.
NextRun ==
    \/ \E f \in Fetches, u \in CallUrls : Call(f, u)
    \/ \E f \in Fetches : FetchStep(f)
    \/ \E t \in tasks : RunTask(t)
    \/ SweepStep
    \/ Tick

SpecRun == Init /\ [][NextRun]_vars

\* The fetch calls alone, each run to its return: the sweeper does not run.
NextFetch ==
    \/ \E f \in Fetches, u \in CallUrls : Call(f, u)
    \/ \E f \in Fetches : FetchStep(f)
    \/ \E t \in tasks : RunTask(t)
    \/ Tick

SpecFetch == Init /\ [][NextFetch]_vars

\* The fetch calls alone, which their callers may drop: the sweeper does not run.
NextCalls ==
    \/ \E f \in Fetches, u \in CallUrls : Call(f, u)
    \/ \E f \in Fetches : FetchStep(f)
    \/ \E f \in Fetches : Cancel(f)
    \/ \E t \in tasks : RunTask(t)
    \/ Tick

SpecCalls == Init /\ [][NextCalls]_vars

\* The fetch calls alone, with an Object Store whose statements may fail.
NextStore ==
    \/ \E f \in Fetches, u \in CallUrls : Call(f, u)
    \/ \E f \in Fetches : FetchStep(f)
    \/ \E f \in Fetches : UpsertError(f)
    \/ \E t \in tasks : RunTask(t)
    \/ \E t \in tasks : TaskError(t)
    \/ Tick

SpecStore == Init /\ [][NextStore]_vars

\* ---------------------------------------------------- the cache read on its own
\* the cache files a read may find, and the caches made of them
ReadPaths ==
    {CacheDirectory \o <<"cid", "meta", "1">>,
     CacheDirectory \o <<"cid", "meta", "1", "index.html">>,
     CacheDirectory \o <<"cid", "meta", "a.json">>,
     CacheDirectory \o <<"cid", "index.html">>}
ReadCaches ==
    {S \in SUBSET ReadPaths : \A p \in S, q \in S : p = q \/ p \notin Prefixes(q)}

InitRead ==
    /\ now = 0
    /\ \E S \in ReadCaches :
          /\ files = [p \in S |-> [size |-> MaxContentLength, of |-> MaxContentLength,
                                    ct |-> Some("text/html")]]
          /\ dirs = Prefixes(CacheDirectory) \cup UNION {Prefixes(Front(p)) : p \in S}
    /\ db = EmptyMap
    /\ blocked = EmptyMap
    /\ mutex = NoHolder
    /\ pc = [f \in Fetches |-> "idle"]
    /\ furl = [f \in Fetches |-> U1]
    /\ urls = [f \in Fetches |-> {}]
    /\ inflight = [f \in Fetches |-> {}]
    /\ cur = [f \in Fetches |-> None]
    /\ tmp = [f \in Fetches |-> -1]
    /\ data = [f \in Fetches |-> None]
    /\ out = None
    /\ took = None
    /\ body = [u \in ValidUrls |-> MaxContentLength]
    /\ rin \in {Some([url |-> u]) : u \in ResolveUrls}
    /\ rout = None
    /\ tasks = {}
    /\ spc = "idle"
    /\ sdate = 0
    /\ sstale = <<>>
    /\ sdel = {}
    /\ ssnap = TRUE
    /\ ncalls = 0
    /\ nsweeps = 0
    /\ last429 = [g \in Gateways |-> -1]
    /\ InitPrefetch

\* get_caching(ctx, ipfs_url) returns
Read ==
    /\ rin # None /\ rout = None
    /\ rout' = Some([probes |-> GetCachingProbes(files, rin[1].url),
                     got |-> GetCaching(files, db, rin[1].url)])
    /\ UNCHANGED <<now, fsVars, db, blocked, mutex, callVars, tasks, sweepVars, ncalls,
                   last429, out, took, body, rin, prefetchVars>>

SpecRead == InitRead /\ [][Read]_vars

\* ---------------------------------------------------- the transcoder on its own
\* config: permitted_resize_dimensions
PermittedResizeDimensions == {[width |-> 1, height |-> 1]}
\* the widths and heights a request may carry (parsed as u32), or none
Dims == {1, 2}
DimStr(n) == IF n = 1 THEN "1" ELSE "2"
\* the cached original the handler passes on
Original == CacheDirectory \o <<"cid", "meta", "1">>

\* a path with a suffix appended to its last component, piece by piece
Suffixed(filename, pieces) == filename \o pieces

\* ImageInfo, with img_width and img_height as `parse::<u32>().ok()` leaves them, and
\* whether image::open / wand.read_image can read the original
ImageInfos ==
    [img_width : {None} \cup {Some(n) : n \in Dims},
     img_height : {None} \cup {Some(n) : n \in Dims},
     img_format : {None, Some("jpeg")},
     video_format : {None, Some("webm"), Some("mp4")},
     readable : BOOLEAN]

HasDimensions(info) == info.img_width # None /\ info.img_height # None
Dimension(info) == [width |-> info.img_width[1], height |-> info.img_height[1]]
Permitted(info) == Dimension(info) \in PermittedResizeDimensions

Transcoded(ok, filename, content_type, fl) ==
    [ok |-> ok, filename |-> filename, content_type |-> content_type, files |-> fl]
DimensionsNotAllowed(fl) ==
    Transcoded(FALSE, <<>>, "Requested dimensions are not allowed", fl)
Thumbnail == [size |-> 1, of |-> 1, ct |-> None]

\* resize_video
ResizeVideo(fl, info, filename) ==
    LET requested_file_format == IF info.video_format = None THEN "png"
                                 ELSE info.video_format[1]
        extension == IF requested_file_format = "webm" THEN ".webm" ELSE ".mp4"
        thumbnail_filename ==
            IF HasDimensions(info)
            THEN Suffixed(filename, <<"-", DimStr(info.img_width[1]), "x",
                                      DimStr(info.img_height[1]), ".", extension>>)
            ELSE Suffixed(filename, <<".", extension>>)
        content_type == IF requested_file_format = "webm" THEN "video/webm"
                        ELSE "video/mp4"
    IN  IF IsFile(fl, thumbnail_filename)
        THEN Transcoded(TRUE, thumbnail_filename, content_type, fl)
        ELSE IF ~info.readable
        THEN Transcoded(TRUE, thumbnail_filename, content_type, fl)
        ELSE IF HasDimensions(info) /\ ~Permitted(info)
        THEN DimensionsNotAllowed(fl)
        ELSE Transcoded(TRUE, thumbnail_filename, content_type,
                        WriteFile(fl, thumbnail_filename, Thumbnail))

\* resize_image
ResizeImage(fl, info, filename, content_type) ==
    IF info.video_format # None THEN ResizeVideo(fl, info, filename)
    ELSE IF ~HasDimensions(info) THEN Transcoded(TRUE, filename, content_type, fl)
    ELSE IF ~Permitted(info) THEN DimensionsNotAllowed(fl)
    ELSE LET requested_file_format == IF info.img_format = None THEN "png"
                                      ELSE info.img_format[1]
             thumbnail_filename ==
                 Suffixed(filename, <<"-", DimStr(info.img_width[1]), "x",
                                      DimStr(info.img_height[1]),
                                      IF requested_file_format = "jpeg" THEN ".jpeg"
                                      ELSE ".png">>)
         IN  Transcoded(TRUE, thumbnail_filename,
                        IF requested_file_format = "jpeg" THEN "image/jpeg"
                        ELSE "image/png",
                        IF ~IsFile(fl, thumbnail_filename) /\ info.readable
                        THEN WriteFile(fl, thumbnail_filename, Thumbnail)
                        ELSE fl)

\* the cache a transcoding request finds: the original, alone or with the sibling
\* file an earlier request like it has made
InitResize ==
    /\ now = 0
    /\ rin \in {Some(i) : i \in ImageInfos}
    /\ \E sibling \in BOOLEAN :
          LET orig == WriteFile(EmptyMap, Original,
                                [size |-> MaxContentLength, of |-> MaxContentLength,
                                 ct |-> None])
              made == ResizeImage(orig, [rin[1] EXCEPT !.readable = TRUE],
                                  Original, "image/png")
          IN  files = IF sibling THEN made.files ELSE orig
    /\ dirs = Prefixes(Front(Original))
    /\ db = EmptyMap
    /\ blocked = EmptyMap
    /\ mutex = NoHolder
    /\ pc = [f \in Fetches |-> "idle"]
    /\ furl = [f \in Fetches |-> U1]
    /\ urls = [f \in Fetches |-> {}]
    /\ inflight = [f \in Fetches |-> {}]
    /\ cur = [f \in Fetches |-> None]
    /\ tmp = [f \in Fetches |-> -1]
    /\ data = [f \in Fetches |-> None]
    /\ out = None
    /\ took = None
    /\ body = [u \in ValidUrls |-> MaxContentLength]
    /\ rout = None
    /\ tasks = {}
    /\ spc = "idle"
    /\ sdate = 0
    /\ sstale = <<>>
    /\ sdel = {}
    /\ ssnap = TRUE
    /\ ncalls = 0
    /\ nsweeps = 0
    /\ last429 = [g \in Gateways |-> -1]
    /\ InitPrefetch

\* the handler calls resize_image(ctx, info, filename, content_type)
Resize ==
    /\ rin # None /\ rout = None
    /\ LET r == ResizeImage(files, rin[1], Original, "image/png") IN
       /\ rout' = Some([ok |-> r.ok, filename |-> r.filename,
                        content_type |-> r.content_type])
       /\ files' = r.files
    /\ UNCHANGED <<now, dirs, db, blocked, mutex, callVars, tasks, sweepVars, ncalls,
                   last429, out, took, body, rin, prefetchVars>>

SpecResize == InitResize /\ [][Resize]_vars

\* The runtime runs every spawned task: none stays pending for ever.
TaskStep == \E t \in tasks : RunTask(t) \/ TaskError(t)
FairStore == SpecStore /\ WF_vars(TaskStep)

\* ------------------------------------------------- the bulk prefetch (bin/fetch)
\* main, were it to spawn without waiting for a permit
AcquirePermitAnyway ==
    /\ main = "acquire"
    /\ index < MaxLines
    /\ permit' = TRUE
    /\ main' = "lock"
    /\ UNCHANGED <<sem, index, jobs, join_handlers>>
    /\ UNCHANGED proxyVars

\* Arc::clone(&sem).acquire_owned().await for a line that was read
AcquirePermit ==
    /\ main = "acquire"
    /\ index < MaxLines
    /\ sem > 0
    /\ sem' = sem - 1
    /\ permit' = TRUE
    /\ main' = "lock"
    /\ UNCHANGED <<index, jobs, join_handlers>>
    /\ UNCHANGED proxyVars

\* a line that could not be read: `if let Ok(ipfs_url) = line` skips it
SkipLine ==
    /\ main = "acquire"
    /\ index < MaxLines
    /\ index' = index + 1
    /\ UNCHANGED <<sem, main, jobs, join_handlers, permit>>
    /\ UNCHANGED proxyVars

\* main holds the guard of join_handlers.lock().await: from the lock to the end of
\* the iteration
MainHoldsLock == main \in {"spawn", "insert"}

\* join_handlers.lock().await in main: no task is inside its own lock/remove, which
\* is one step here
LockJoinHandlers ==
    /\ main = "lock"
    /\ main' = "spawn"
    /\ UNCHANGED <<sem, index, jobs, join_handlers, permit>>
    /\ UNCHANGED proxyVars

\* tokio::spawn of the task the permit moves into: the task may run at once
SpawnFetch ==
    /\ main = "spawn"
    /\ jobs' = [jobs EXCEPT ![index] = "fetching"]
    /\ permit' = FALSE
    /\ main' = "insert"
    /\ UNCHANGED <<sem, index, join_handlers>>
    /\ UNCHANGED proxyVars

\* join_handlers.insert(index, join_handler); the guard is dropped as the iteration ends
InsertHandle ==
    /\ main = "insert"
    /\ join_handlers' = join_handlers \cup {index}
    /\ index' = index + 1
    /\ main' = "acquire"
    /\ UNCHANGED <<sem, jobs, permit>>
    /\ UNCHANGED proxyVars

\* the task's fetch_ipfs_data(ctx, &ipfs_url).await returns, Ok or Err
FetchReturns(i) ==
    /\ jobs[i] = "fetching"
    /\ jobs' = [jobs EXCEPT ![i] = "returned"]
    /\ UNCHANGED <<sem, index, main, join_handlers, permit>>
    /\ UNCHANGED proxyVars

\* the task, were it to remove its index without the lock
RemoveHandleUnlocked(i) ==
    /\ jobs[i] = "returned"
    /\ jobs' = [jobs EXCEPT ![i] = "done"]
    /\ join_handlers' = join_handlers \ {i}
    /\ sem' = sem + 1
    /\ UNCHANGED <<index, main, permit>>
    /\ UNCHANGED proxyVars

\* the task locks join_handlers once main does not hold it, removes its index and
\* ends: _permit is dropped
RemoveHandle(i) ==
    /\ jobs[i] = "returned"
    /\ ~MainHoldsLock
    /\ jobs' = [jobs EXCEPT ![i] = "done"]
    /\ join_handlers' = join_handlers \ {i}
    /\ sem' = sem + 1
    /\ UNCHANGED <<index, main, permit>>
    /\ UNCHANGED proxyVars

\* the file is over and main, in its wait loop, finds join_handlers empty
AllDone ==
    /\ main = "acquire"
    /\ index = MaxLines
    /\ join_handlers = {}
    /\ main' = "done"
    /\ UNCHANGED <<sem, index, jobs, join_handlers, permit>>
    /\ UNCHANGED proxyVars

NextPrefetch ==
    \/ AcquirePermit
    \/ SkipLine
    \/ LockJoinHandlers
    \/ SpawnFetch
    \/ InsertHandle
    \/ \E i \in Lines : FetchReturns(i)
    \/ \E i \in Lines : RemoveHandle(i)
    \/ AllDone

SpecPrefetch == Init /\ [][NextPrefetch]_vars

\* main and the tasks are polled by the runtime, and every fetch call returns
FairPrefetch == SpecPrefetch /\ WF_vars(NextPrefetch)

\* ------------------------------------------------- the path resolver on its own
\* the states of the cache directory caching_filename is called in: empty, or with
\* a file where a directory listing would need a directory
InitResolve ==
    /\ now = 0
    /\ \E fl \in {EmptyMap,
                   WriteFile(EmptyMap, CacheDirectory \o <<"cid", "meta", "1">>,
                             [size |-> MaxContentLength, of |-> MaxContentLength,
                              ct |-> None])} :
          /\ files = fl
          /\ dirs = UNION {Prefixes(Front(q)) : q \in DOMAIN fl \cup {CacheDirectory \o <<"x">>}}
    /\ db = EmptyMap
    /\ blocked = EmptyMap
    /\ mutex = NoHolder
    /\ pc = [f \in Fetches |-> "idle"]
    /\ furl = [f \in Fetches |-> U1]
    /\ urls = [f \in Fetches |-> {}]
    /\ inflight = [f \in Fetches |-> {}]
    /\ cur = [f \in Fetches |-> None]
    /\ tmp = [f \in Fetches |-> -1]
    /\ data = [f \in Fetches |-> None]
    /\ out = None
    /\ took = None
    /\ body = [u \in ValidUrls |-> MaxContentLength]
    /\ rin \in {Some([url |-> u, hint |-> h, create |-> c]) :
                    u \in ResolveUrls, h \in ContentTypeHeaders, c \in BOOLEAN}
    /\ rout = None
    /\ tasks = {}
    /\ spc = "idle"
    /\ sdate = 0
    /\ sstale = <<>>
    /\ sdel = {}
    /\ ssnap = TRUE
    /\ ncalls = 0
    /\ nsweeps = 0
    /\ last429 = [g \in Gateways |-> -1]
    /\ InitPrefetch

\* caching_filename(ipfs_url, directory, content_type, create) returns: the filename,
\* or the error of create_dir_all
Resolve ==
    /\ rin # None /\ rout = None
    /\ LET url == rin[1].url
           hint == rin[1].hint IN
       IF rin[1].create /\ ~CanCreateDirAll(files, CacheDirOf(url, hint))
       THEN /\ rout' = Some([ok |-> FALSE, filename |-> <<>>])
            /\ dirs' = dirs
       ELSE /\ rout' = Some([ok |-> TRUE, filename |-> CachingFilename(url, hint)])
            /\ dirs' = IF rin[1].create THEN CreateDirAll(dirs, CacheDirOf(url, hint))
                       ELSE dirs
    /\ UNCHANGED <<now, files, db, blocked, mutex, callVars, out, took, body, rin,
                   tasks, sweepVars, ncalls, last429, prefetchVars>>

SpecResolve == InitResolve /\ [][Resolve]_vars

\* ================================================================ properties
\* the files a URL's cache entry may be: <root>/<base_uri>, <root>/<base_uri>/index.html
CachePaths(url) ==
    {Normalize(CachingFilename(url, None)),
     Normalize(CachingFilename(url, Some("text/html")))}
HasCacheFile(fl, url) == CachePaths(url) \cap DOMAIN fl # {}

Returned(f) == out # None /\ out[1].fetch = f
ReturnedKind(kind) == out # None /\ out[1].result.kind = kind

\* ------------------------------------------------------------------------ C1
\* C1: after a gateway has answered 429, every fetch that builds its candidate
\* set less than pause_gateway_seconds later leaves that gateway out.
C1_Blocked429Excluded ==
    [][\A f \in Fetches : \A g \in Gateways :
         (/\ pc[f] = "lock" /\ pc'[f] = "race"
          /\ last429[g] >= 0
          /\ now - last429[g] < PauseGatewaySeconds)
         => g \notin inflight'[f]]_vars

\* ------------------------------------------------------------------------ C2
\* C2: the block-list mutex is held only across reads and writes of the map: no
\* call holds it while its gateway requests are in flight or while it handles
\* their responses, so no other call on a miss waits for it during that I/O.
C2_MutexOnlyAcrossMapAccess ==
    \A f \in Fetches :
        mutex = f => /\ inflight[f] = {}
                     /\ pc[f] \notin {"race", "stream", "check", "upsert", "relock"}

\* ------------------------------------------------------------------------ C3
\* C3: a call that has taken a 429 sets the gateway's block entry and goes on with
\* the race: it gets back to the race loop (or has returned), and the entry is set.
C3_429AbsorbedRaceGoesOn ==
    \A f \in Fetches : \A g \in Gateways :
        (pc[f] = "relock" /\ cur[f] # None /\ cur[f][1].host = g)
            ~> ((pc[f] = "race" \/ pc[f] = "idle") /\ g \in DOMAIN blocked)

\* ------------------------------------------------------------------------ C4
\* C4: at every instant, and so at every point where set_stream_caching may be
\* interrupted (a stream error, a dropped call), each final cache path is absent
\* or holds a complete body: never a strict prefix of the stream written to it.
C4_FinalPathAbsentOrComplete ==
    \A p \in DOMAIN files : files[p].size = files[p].of

\* a body is half written to the temp file and nothing is at the final path
C4_MidStream ==
    \E f \in Fetches :
        /\ pc[f] = "stream"
        /\ tmp[f] > 0 /\ tmp[f] < cur[f][1].len
        /\ ~IsFile(files, data[f][1].filename)

\* ------------------------------------------------------------------------ C5
\* C5: when the 200 the race loop takes advertises a Content-Length above
\* max_content_length, the call returns "File is <n> bytes, maximum allowed is
\* <max>" in that step: no body is read, no file, directory or record changes.
C5_DeclaredSizeRejected ==
    [][\A f \in Fetches :
         (/\ took' # None /\ took'[1].fetch = f /\ took'[1].status = 200
          /\ took'[1].advertised /\ took'[1].len > MaxContentLength)
         => /\ out' # None /\ out'[1].fetch = f
            /\ out'[1].result = ErrDeclared(took'[1].len)
            /\ out'[1].data = None
            /\ tmp'[f] = -1
            /\ files' = files /\ dirs' = dirs /\ db' = db /\ tasks' = tasks]_vars

\* a call has just been refused for its declared size
C5_DeclaredOversizeTaken ==
    /\ took # None /\ took[1].status = 200 /\ took[1].advertised
    /\ took[1].len > MaxContentLength
    /\ out # None /\ out[1].result = ErrDeclared(took[1].len)

\* ------------------------------------------------------------------------ C6
\* C6: whatever the URL and the content type, when a call returns the error of the
\* size check after the stream, the file it wrote is gone and no record was written.
C6_OversizeBodyRemoved ==
    [][\A f \in Fetches :
         (/\ pc[f] = "check"
          /\ out' # None /\ out'[1].fetch = f
          /\ out'[1].result.kind = ErrObserved(0).kind)
         => /\ ~IsFile(files', data[f][1].filename)
            /\ db' = db]_vars

\* ------------------------------------------------------------------------ C7
\* the directories above a URL's cache files and below the cache root
Ancestors(url) ==
    {d \in UNION {Prefixes(p) : p \in CachePaths(url)} :
        Len(d) > Len(CacheDirectory) /\ d \notin CachePaths(url)}

\* C7: when a sweep with threshold T ends with no fetch under way meanwhile, every
\* record with last_accessed_at < T is gone, and so is its cache file, at
\* <root>/<base_uri> or at <root>/<base_uri>/index.html, and so is every
\* directory above it that the sweep left empty.
C7_StaleEvicted ==
    [][(spc = "commit" /\ spc' = "idle") =>
         \A u \in DOMAIN db :
            db[u].last_accessed_at < sdate =>
               /\ u \notin DOMAIN db'
               /\ ~HasCacheFile(files', u)
               /\ \A d \in Ancestors(u) \cap dirs' : HasEntries(files', dirs', d)]_vars

\* ------------------------------------------------------------------------ C8
\* the rows the sweeper still has to process
Enumerated == {sstale[i] : i \in DOMAIN sstale}

\* C8: every step of a sweep with threshold T leaves each record with
\* last_accessed_at >= T as it is, and each cache file that is not the file of a
\* record the sweep found with last_accessed_at < T; the rows it finds are
\* exactly those with last_accessed_at < T.
C8_SweepFrame ==
    [][spc' # spc =>
         LET T == IF spc = "idle" THEN sdate' ELSE sdate IN
         /\ spc = "idle" =>
               /\ {sstale'[i] : i \in DOMAIN sstale'} =
                      {u \in DOMAIN db : db[u].last_accessed_at < T}
               /\ files' = files /\ db' = db
         /\ \A u \in DOMAIN db :
               db[u].last_accessed_at >= T => u \in DOMAIN db' /\ db'[u] = db[u]
         /\ \A p \in DOMAIN files :
               p \notin UNION {CachePaths(u) : u \in Enumerated}
                  => p \in DOMAIN files' /\ files'[p] = files[p]]_vars

\* a sweep has removed a stale record's file and is about to commit, while a
\* record at or past the threshold and its file are in place
C8_FreshSurvives ==
    /\ spc = "commit" /\ sdel # {}
    /\ \E u \in DOMAIN db \ sdel :
          db[u].last_accessed_at >= sdate /\ HasCacheFile(files, u)
    /\ \E v \in sdel : ~HasCacheFile(files, v)

\* ------------------------------------------------------------------------ C9
\* C9: within a call the body is written and renamed before the upsert is issued,
\* and the upsert is over before the call returns success; when a call returns
\* success, the file named in the Data it returns exists.
C9_FileBeforeRecordBeforeSuccess ==
    /\ \A f \in Fetches : pc[f] \in {"check", "upsert"} => tmp[f] = -1
    /\ (out # None /\ out[1].result = Ok) =>
          /\ out[1].data # None
          /\ IsFile(files, out[1].data[1].filename)

\* ----------------------------------------------------------------------- C10
\* C10: whenever no sweep is in progress, each record's URL has a cache file, at
\* one of its two paths, whose size is the record's content_size.
C10_RecordImpliesFile ==
    spc = "idle" =>
        \A u \in DOMAIN db :
            \E p \in CachePaths(u) \cap DOMAIN files : files[p].size = db[u].content_size

\* ----------------------------------------------------------------------- C11
\* every call has returned, every spawned upsert has run, the sweeper is not running
Quiescent == NoFetch /\ NoSweep

\* a complete cache file of the URL, at one of its two paths
HasCompleteFile(fl, url) ==
    \E p \in CachePaths(url) \cap DOMAIN fl : fl[p].size = fl[p].of

\* C11: once a sweep and the fetch calls it ran along with have all finished, each
\* URL has both a record and a complete cache file, or it has neither.  Stated for
\* the URLs whose content is within max_content_length, and for the half that none
\* of them is left with a record and no complete cache file.
C11_SweepFetchConsistent ==
    (Quiescent /\ nsweeps > 0) =>
        \A u \in ValidUrls :
            (body[u] <= MaxContentLength /\ u \in DOMAIN db) => HasCompleteFile(files, u)

\* ----------------------------------------------------------------------- C12
\* C12: when a call returns success from the miss path, alone or as the second of
\* two calls that missed on the same URL, the URL has exactly one cache file, at
\* the path the call returns, holding one complete body, and one record of that size;
\* at no time has a URL more than one cache file.
C12_ConcurrentMissesIdempotent ==
    /\ \A u \in ValidUrls : Cardinality(CachePaths(u) \cap DOMAIN files) <= 1
    /\ (out # None /\ out[1].result = Ok /\ out[1].urls # {}) =>
          LET u == out[1].url
              p == Normalize(out[1].data[1].filename) IN
          /\ CachePaths(u) \cap DOMAIN files = {p}
          /\ files[p].size = body[u] /\ files[p].of = body[u]
          /\ u \in DOMAIN db
          /\ db[u].content_size = body[u]

\* a call that missed returns success with no Content-Type of its own while the
\* record holds the Content-Type of another call's response: both did the network
\* work for the URL
C12_SecondMissStored ==
    /\ out # None /\ out[1].result = Ok /\ out[1].urls # {}
    /\ out[1].data[1].content_type = None
    /\ out[1].url \in DOMAIN db
    /\ db[out[1].url].content_type = "application/json"

\* ----------------------------------------------------------------------- C13
\* what the fetch that stored the file at p returned: the Content-Type of its
\* response and the filename resolved with it
StoredData(url, p) == Data(files[p].ct, CachingFilename(url, files[p].ct))

\* C13: once a fetch has stored a URL's file and record and has returned, a fetch
\* served from the cache, no other call under way, returns the file the storing
\* fetch wrote, with the content type and the filename the storing fetch returned.
C13_RoundTrip ==
    (/\ out # None /\ out[1].result = Ok /\ out[1].urls = {}
     /\ out[1].url \in DOMAIN db
     /\ \A f \in Fetches : pc[f] = "idle") =>
        LET p == Normalize(out[1].data[1].filename) IN
        p \in DOMAIN files => out[1].data[1] = StoredData(out[1].url, p)

\* ----------------------------------------------------------------------- C14
\* the URL ends with '/', or the hint is text/html and the last segment has no
\* extension the media-type guesser knows
DirectoryCase(url, hint) ==
    \/ Len(url.base) > 1 /\ url.base[Len(url.base)] = ""
    \/ hint = Some("text/html") /\ Extension(url.base[Len(url.base)]) \notin {"html", "json"}

EndsWithIndexHtml(filename) ==
    Len(filename) > 1 /\ filename[Len(filename)] = "index.html"

\* with create, the parent directory of the returned filename exists
ParentExists ==
    rin[1].create => Front(Normalize(rout[1].filename)) \in dirs

\* C14, as amended: the resolver returns <root>/<base_uri>/index.html exactly in
\* the directory case and <root>/<base_uri> unchanged in every other case, and with
\* create the parent directory of the returned filename exists afterwards.
C14_IndexHtmlAppended ==
    (rout # None /\ rout[1].ok) =>
        /\ rout[1].filename =
              IF DirectoryCase(rin[1].url, rin[1].hint)
              THEN (CacheDirectory \o rin[1].url.base) \o <<"index.html">>
              ELSE CacheDirectory \o rin[1].url.base
        /\ ParentExists

\* the resolver has made the directory of a listing for a text/html response to
\* a URL without extension
C14_ListingResolved ==
    /\ rout # None /\ rout[1].ok
    /\ rin[1].create /\ rin[1].hint = Some("text/html")
    /\ rin[1].url = U1
    /\ EndsWithIndexHtml(rout[1].filename)

\* C14: the filename the resolver returns ends in /index.html exactly in the
\* directory case; in every other case it is <root>/<base_uri> unchanged; with
\* create the parent directory of the returned filename exists afterwards.
C14_IndexHtmlExactlyWhenDirectory ==
    (rout # None /\ rout[1].ok) =>
        /\ EndsWithIndexHtml(rout[1].filename) <=> DirectoryCase(rin[1].url, rin[1].hint)
        /\ ~DirectoryCase(rin[1].url, rin[1].hint) =>
              rout[1].filename = CacheDirectory \o rin[1].url.base
        /\ ParentExists

\* ----------------------------------------------------------------------- C15
\* what the step did to the table is an upsert of (url, content_type, content_size)
UpsertOf(url, content_type, content_size) ==
    IF url \in DOMAIN db
    THEN /\ DOMAIN db' = DOMAIN db
         /\ \A v \in DOMAIN db \ {url} : db'[v] = db[v]
         /\ db'[url].last_accessed_at \in 0..now
         /\ db'[url].cached_at = db[url].cached_at
         /\ db'[url].content_type = db[url].content_type
         /\ db'[url].content_size = db[url].content_size
    ELSE /\ DOMAIN db' = DOMAIN db \cup {url}
         /\ \A v \in DOMAIN db : db'[v] = db[v]
         /\ db'[url].cached_at = db'[url].last_accessed_at
         /\ db'[url].last_accessed_at \in 0..now
         /\ db'[url].content_type = content_type
         /\ db'[url].content_size = content_size

\* C15: update_entry inserts a row when the URL has none; when it has one, it
\* changes last_accessed_at only: cached_at, content_type, content_size and the
\* number of rows stay, and no other row changes.
C15_UpsertSemantics ==
    [][/\ \A t \in tasks \ tasks' : UpsertOf(t.url, t.content_type, t.content_size)
       /\ \A f \in Fetches :
             (pc[f] = "upsert" /\ out' # None /\ out'[1].fetch = f /\ out'[1].result = Ok)
                => UpsertOf(furl[f],
                            IF cur[f][1].ct = None THEN "" ELSE cur[f][1].ct[1],
                            body[furl[f]])]_vars

\* an upsert has met a row that was inserted earlier
C15_RowRefreshed ==
    \E u \in DOMAIN db : db[u].last_accessed_at > db[u].cached_at

\* ----------------------------------------------------------------------- C16
\* C16: whatever the order in which upserts execute, those spawned by cache hits
\* included, the last_accessed_at of a record never decreases while it exists.
C16_LastAccessedMonotonic ==
    [][\A u \in DOMAIN db \cap DOMAIN db' :
         db'[u].last_accessed_at >= db[u].last_accessed_at]_vars

\* ----------------------------------------------------------------------- C17
AllGatewaysFailed == Err("Couldn't fetch any url").kind

\* C17: a result that is neither a 200 nor a 429 (another status, status 0 for a
\* transport error) does not end the call: the race loop goes on with the
\* remaining candidates and nothing else changes; the call returns the
\* all-gateways-failed error, with the URLs it attempted, only when every
\* candidate has been handled and none gave a 200.
C17_TransientAbsorbed ==
    [][\A f \in Fetches :
         /\ (/\ took' # None /\ took'[1].fetch = f
             /\ took'[1].status \notin {200, 429})
            => /\ out' = None
               /\ pc'[f] = "race"
               /\ inflight'[f] = inflight[f] \ {took'[1].gateway}
               /\ urls'[f] = urls[f]
               /\ files' = files /\ db' = db /\ blocked' = blocked
         /\ (/\ out' # None /\ out'[1].fetch = f
             /\ out'[1].result.kind = AllGatewaysFailed)
            => /\ pc[f] = "race" /\ inflight[f] = {}
               /\ took' = None
               /\ out'[1].urls = urls[f]
               /\ urls[f] = {RequestUrl(g, CheckIpfsUrl(furl[f])[1]) :
                               g \in Candidates(blocked, now)}]_vars

\* a call has failed after both of its candidates were handled without a 200
C17_AllCandidatesFailed ==
    /\ out # None /\ out[1].result.kind = AllGatewaysFailed
    /\ Cardinality(out[1].urls) = Len(IpfsGateways)

\* ----------------------------------------------------------------------- C18
\* the URL has the prefix ipfs:// and its first segment is a valid CID
WellFormed(url) == url.scheme = "ipfs://" /\ url.base[1] \in {"cid"}

\* C18: a call whose URL lacks the prefix ipfs:// or whose first segment is not a
\* valid CID returns an error in its first step: it never probes the cache, reads
\* the table, locks the block-list or spawns a request, and files, directories,
\* records, block-list and spawned upserts are as they were.
C18_ValidationFailsFast ==
    [][/\ \A f \in Fetches : pc'[f] # "idle" => WellFormed(furl'[f])
       /\ (out' # None /\ ~WellFormed(out'[1].url))
          => /\ out'[1].result.kind \in {"Not an IPFS URL", "CID is invalid"}
             /\ out'[1].data = None /\ out'[1].urls = {}
             /\ took' = None
             /\ UNCHANGED <<pc, files, dirs, db, blocked, mutex, urls, inflight,
                            tasks>>]_vars

\* a call has been refused for its CID while a file and its record are cached
C18_BadCidRefused ==
    /\ out # None /\ out[1].url = UBadCid
    /\ out[1].result.kind = "CID is invalid"
    /\ db # EmptyMap /\ files # EmptyMap

\* ----------------------------------------------------------------------- C19
\* C19: a sweep ends by its commit only, with every stale entry it found
\* processed: the failure of one entry's file delete or record delete does not
\* end it.
C19_SweepGoesOnToCommit ==
    [][(spc # "idle" /\ spc' = "idle") => (spc = "commit" /\ sstale = <<>>)]_vars

\* ----------------------------------------------------------------------- C20
\* the errors of set_stream_caching once the temp file exists
CacheWriteErrors == {"stream error", "write failed", "rename failed"}

\* the call f returns one of them with this step
CacheWriteFails(f) ==
    /\ pc[f] = "stream"
    /\ out' # None
    /\ out'[1].fetch = f
    /\ out'[1].result.kind \in CacheWriteErrors

\* C20: when the body stream fails part-way, or the write to the temp file or the
\* rename fails, the call returns the error, its temp file is unlinked and it has
\* put nothing at the final path: the files are what they were, and a file at the
\* final path is a complete one that another call renamed there.  The directories
\* made for the final path stay.
C20_FailedWriteAddsNothing ==
    [][\A f \in Fetches : CacheWriteFails(f) =>
          /\ pc'[f] = "idle"
          /\ tmp'[f] = -1
          /\ files' = files
          /\ dirs' = dirs
          /\ \A p \in DOMAIN files' : files'[p].size = files'[p].of]_vars

\* a stream has failed while the final path holds the file of another call
C20_FailedBesideStoredFile ==
    /\ ReturnedKind("stream error")
    /\ HasCompleteFile(files, out[1].url)
    /\ tmp[out[1].fetch] = -1

\* C20 as stated: after such an error no file exists at the final path for the URL.
C20_NoFileAtFinalPath ==
    [][\A f \in Fetches : CacheWriteFails(f) =>
          /\ tmp'[f] = -1
          /\ ~IsFile(files', data[f][1].filename)]_vars

\* ----------------------------------------------------------------------- C21
\* the call f returns with this step
Returns(f) == pc[f] # "idle" /\ out' # None /\ out'[1].fetch = f

\* the path of data holds the whole body of url
HoldsBody(fl, d, url) ==
    /\ IsFile(fl, d.filename)
    /\ fl[Normalize(d.filename)].size = body[url]
    /\ fl[Normalize(d.filename)].of = body[url]

C22_WhitelistEnforced ==
    [][(rout = None /\ rout' # None /\ HasDimensions(rin[1]) /\ ~Permitted(rin[1])) =>
          /\ ~rout'[1].ok
          /\ rout'[1].content_type = "Requested dimensions are not allowed"
          /\ rout'[1].filename = <<>>
          /\ files' = files]_vars

\* ----------------------------------------------------------------------- C23
\* C23: delete_caching removes only directories strictly below the cache root: the
\* cache root and its own ancestors are always there, also when the last cached
\* object has been deleted.
C23_CacheRootKept == Prefixes(CacheDirectory) \subseteq dirs

\* ----------------------------------------------------------------------- C24
\* this step is delete_caching(url), called by the sweeper or by the size check
\* after the stream
Deleted(url) ==
    \/ spc = "delfile" /\ spc' = "delrec" /\ Head(sstale) = url
    \/ \E f \in Fetches :
          /\ pc[f] = "check" /\ Returns(f) /\ furl[f] = url
          /\ out'[1].result = ErrObserved(out'[1].result.n)

\* C24: delete_caching(url) leaves every file that is not url's own cache file and
\* every directory that still has an entry (a sibling and the common directory
\* stay); url's cache file is gone afterwards, and so is each directory above it,
\* up to the CID directory, that has become empty.
C24_DeletePreservesSiblings ==
    [][\A u \in ValidUrls : Deleted(u) =>
          /\ \A p \in DOMAIN files \ CachePaths(u) :
                p \in DOMAIN files' /\ files'[p] = files[p]
          /\ \A d \in dirs \ dirs' : ~HasEntries(files', dirs', d)
          /\ ~HasCacheFile(files', u)
          /\ \A d \in Ancestors(u) \cap dirs' : HasEntries(files', dirs', d)]_vars

\* ----------------------------------------------------------------------- C25
\* an update_entry task for url is pending
Scheduled(url) == \E t \in tasks : t.url = url

C26_DirectoryFallbackOnce ==
    rout # None =>
       LET url == rin[1].url
           probes == rout[1].probes
           first == CachingFilename(url, None) IN
       /\ Len(probes) \in {1, 2}
       /\ probes[1] = first
       /\ Len(probes) = 2 <=> (~EndsWithSlash(url) /\ ~IsFile(files, first))
       /\ Len(probes) = 2 => probes[2] = CachingFilename(AppendSlash(url), None)
       /\ rout[1].got = None <=> \A i \in DOMAIN probes : ~IsFile(files, probes[i])
       /\ rout[1].got # None => rout[1].got[1].filename = probes[Len(probes)]

\* the first probe has missed and the retry has found <root>/X/index.html
C26_FallbackFound ==
    /\ rout # None
    /\ Len(rout[1].probes) = 2
    /\ rout[1].got # None
    /\ ~EndsWithSlash(rin[1].url)

\* ----------------------------------------------------------------------- C27
\* C27: when a call on a miss builds its candidate set, every gateway whose most
\* recent 429 is at least pause_gateway_seconds old is in it, and so is every
\* gateway that never answered 429 and every gateway with no block entry; the
\* request URLs are the gateways of the set, each followed by "/" and the base_uri.
C27_BlockEntriesExpire ==
    [][\A f \in Fetches : (pc[f] = "lock" /\ pc'[f] = "race") =>
          /\ \A g \in Gateways :
                (last429[g] < 0 \/ now - last429[g] >= PauseGatewaySeconds)
                   => g \in inflight'[f]
          /\ \A g \in Gateways \ DOMAIN blocked : g \in inflight'[f]
          /\ urls'[f] = {<<g>> \o furl[f].base : g \in inflight'[f]}]_vars

\* a call is racing a gateway whose 429 is pause_gateway_seconds old
C27_ExpiredGatewayRequested ==
    \E f \in Fetches, g \in Gateways :
        /\ pc[f] = "race"
        /\ inflight[f] = Gateways
        /\ <<g>> \o furl[f].base \in urls[f]
        /\ last429[g] >= 0
        /\ now - last429[g] = PauseGatewaySeconds

\* ----------------------------------------------------------------------- C28
\* the positions of a call that has taken a 200 and goes on with its body
AfterFirst200 == {"stream", "check", "upsert"}

\* C28: a call takes responses in the race loop only, and once it has taken a 200
\* whose body it streams it never comes back to the race loop: it takes no other
\* response, the responses still under way change neither the cache, the records
\* nor the block-list, the one file the call writes holds the body and the content
\* type of that first 200, and the one upsert comes with the call's return.
C28_OneBodyPerCall ==
    [][\A f \in Fetches :
          /\ (took' # None /\ took'[1].fetch = f) => pc[f] = "race"
          /\ (pc[f] = "race" /\ pc'[f] = "stream") =>
                /\ took'[1].status = 200
                /\ cur'[f][1].len = took'[1].len /\ cur'[f][1].ct = took'[1].ct
                /\ UNCHANGED <<files, db, blocked>>
          /\ pc[f] \in AfterFirst200 =>
                /\ pc'[f] \in AfterFirst200 \cup {"idle"}
                /\ inflight'[f] \in {inflight[f], {}}
                /\ pc'[f] # "idle" => cur'[f][1].len = cur[f][1].len
                /\ blocked' = blocked
          /\ (pc[f] = "stream" /\ pc'[f] = "check") =>
                /\ HoldsBody(files', data[f][1], furl[f])
                /\ files'[Normalize(data[f][1].filename)].ct = cur[f][1].ct
                /\ \A p \in DOMAIN files : p \in DOMAIN files'
          /\ (pc[f] \in AfterFirst200 /\ tasks' = tasks /\ db' # db) =>
                pc[f] = "upsert" /\ pc'[f] = "idle"]_vars

\* a call is about to upsert the body of its first 200 while another of its
\* requests is still under way
C28_LoserStillUnderWay ==
    \E f \in Fetches :
        /\ pc[f] = "upsert"
        /\ inflight[f] # {}
        /\ HoldsBody(files, data[f][1], furl[f])

\* ----------------------------------------------------------------------- C29
\* C29: no path is a cache file and a directory at once and no cache file lies
\* below another; for each URL X the cache never holds a file at <root>/X and one
\* at <root>/X/index.html together: at most one cache file is there for X,
\* whatever content types the gateways have reported for it.
C29_FileXorDirectory ==
    /\ DOMAIN files \cap dirs = {}
    /\ \A p \in DOMAIN files : Prefixes(Front(p)) \cap DOMAIN files = {}
    /\ \A u \in ValidUrls :
          /\ ~(/\ IsFile(files, CachingFilename(u, None))
               /\ IsFile(files, CachingFilename(u, Some("text/html"))))
          /\ Cardinality(CachePaths(u) \cap DOMAIN files) <= 1

\* X is cached as a file, and a fetch of X whose gateway reported text/html has
\* been refused the directory <root>/X
C29_ListingRefusedOverFile ==
    /\ ReturnedKind("create_dir_all failed")
    /\ IsFile(files, CachingFilename(out[1].url, None))
    /\ ~IsFile(files, CachingFilename(out[1].url, Some("text/html")))

\* ----------------------------------------------------------------------- C30
\* the fetch calls in flight, and the tasks that hold a permit
InFlight == {i \in Lines : jobs[i] = "fetching"}
HoldingPermit == {i \in Lines : jobs[i] \in {"fetching", "returned"}}

\* C30: in bin/fetch the fetch calls in flight are never more than threads_count:
\* every permit is with the semaphore, with main on its way to spawn, or with a
\* task whose fetch is in flight or has returned; a fetch starts only with a permit
\* main has acquired, and the semaphore gets a permit back only from a task whose
\* fetch has returned.
C30_BoundedPrefetch ==
    /\ [](/\ Cardinality(InFlight) <= ThreadsCount
          /\ sem >= 0
          /\ sem + Cardinality(HoldingPermit) + (IF permit THEN 1 ELSE 0) = ThreadsCount)
    /\ [][/\ \A i \in Lines :
                (jobs[i] # "fetching" /\ jobs'[i] = "fetching") =>
                   permit /\ ~permit' /\ sem' = sem
          /\ sem' > sem =>
                \E i \in Lines : jobs[i] = "returned" /\ jobs'[i] = "done"
          /\ (~permit /\ permit') => sem > 0 /\ sem' = sem - 1]_vars

\* threads_count fetches are in flight and main waits for a permit for the next line
C30_MainWaitsForPermit ==
    /\ Cardinality(InFlight) = ThreadsCount
    /\ sem = 0
    /\ main = "acquire"
    /\ index < MaxLines

\* ----------------------------------------------------------------------- C31
\* the tasks main has spawned that have not ended
Unfinished == {i \in Lines : jobs[i] \in {"fetching", "returned"}}

\* C31: bin/fetch exits only when every task it spawned has ended, and when every
\* fetch call returns it does exit; a task removes its entry from join_handlers
\* only after main has inserted it, so the map never keeps the entry of a task
\* that has ended.
C31_WaitsForAllFetches ==
    /\ [](/\ main = "done" => (Unfinished = {} /\ join_handlers = {} /\ index = MaxLines)
          /\ \A i \in Lines : jobs[i] = "done" => i \notin join_handlers
          /\ join_handlers \subseteq Unfinished
          /\ \A i \in Unfinished : i \in join_handlers \/ (MainHoldsLock /\ i = index))
    /\ [][\A i \in Lines : (jobs[i] = "returned" /\ jobs'[i] = "done") =>
             i \in join_handlers /\ i \notin join_handlers']_vars
    /\ <>(main = "done")

\* a task's fetch has returned before main has inserted the task's entry
C31_EarlyFinisherWaits ==
    /\ main = "insert"
    /\ jobs[index] = "returned"
    /\ index \notin join_handlers

\* ----------------------------------------------------------------------- C32
\* C32: no call returns success with a Data whose file is larger than
\* max_content_length, whichever way concurrent calls for the URL interleave.
C32_NoOversizeServed ==
    (out # None /\ out[1].result = Ok /\ out[1].data # None) =>
        FileLen(files, out[1].data[1].filename) <= MaxContentLength

\* ----------------------------------------------------------------------- C33
\* the record of url is at or past the threshold of the sweep under way, and its
\* cache file is in place
RefreshedInTime(url) ==
    /\ spc # "idle"
    /\ url \in DOMAIN db
    /\ db[url].last_accessed_at >= sdate
    /\ HasCacheFile(files, url)

\* C33: a record whose last_accessed_at is at or past the threshold while the sweep
\* is between its enumeration and its end (a hit has refreshed it meanwhile) is not
\* evicted: no step of the sweep removes the record or its cache file.
C33_RefreshedNotEvicted ==
    [][(spc # "idle" /\ spc' # spc) =>
          \A u \in ValidUrls :
              RefreshedInTime(u) => (u \in DOMAIN db' /\ HasCacheFile(files', u))]_vars

====
